---- MODULE Spec2Model ----
(***************************************************************************)
(* Conversion-funnel anomaly pipeline of ArguxAI: the anomaly detector     *)
(* (app/services/anomaly_detector.py), the metrics comparison it rests on  *)
(* (app/services/metrics_calculator.py) and the issue lifecycle manager    *)
(* (app/services/issue_manager.py) with its diagnosis provider             *)
(* (app/integrations/deepseek_client.py) and its sqlite issue table.       *)
(*                                                                         *)
(* Units.  Percentages are kept as integers in hundredths of a percent     *)
(* (52.0 % is 5200): the code rounds every rate to two decimals.  Sigma    *)
(* values are kept in hundredths as well.  Optional values are sequences:  *)
(* None is <<>> and a present value v is <<v>>.                            *)
(***************************************************************************)
EXTENDS Integers, Sequences, FiniteSets, TLC

VARIABLES
    clock,        \* datetime.utcnow(); every operation starts one tick later
    anomalies,    \* Anomaly objects emitted by detect_anomaly and held by callers
    heap,         \* the Issue objects constructed so far (index = object identity)
    issues,       \* IssueManager.issues : issue id -> Issue object
    db,           \* sqlite table "issues" : issue_id -> row
    tasks,        \* the coroutines running lifecycle operations on the event loop
    evidenceLog,  \* every call of collect_evidence, in order
    dbWrites,     \* number of calls of _save_issue_to_db
    ret,          \* the call that returned in the last step, if any
    storeFaulty,  \* whether writes to the sqlite file may fail in this run
    dIn,          \* run of one function (detect_anomaly, ...): its arguments;
                  \* for ingest_events, the calls that are made one by one
    dOut          \* run of one function: whether it ran and what it returned
                  \* (for ingest_events: the deduplication cache, the
                  \* events table and the last response, after each call)

vars == <<clock, anomalies, heap, issues, db, tasks, evidenceLog, dbWrites,
          ret, storeFaulty, dIn, dOut>>

None == <<>>
Some(v) == <<v>>

(***************************************************************************)
(* Bounds of the model.                                                    *)
(***************************************************************************)
MaxTasks == 2
MaxClock == 4
MaxDrop == 3000
MaxSessions == 40
MaxScanLen == 3
MaxListed == 3
MaxEvents == 3
MaxAnalysed == 11
MaxStamp == 5
MaxCalls == 3

(***************************************************************************)
(* Settings (app/config.py); the percentage and sigma in hundredths.       *)
(***************************************************************************)
min_drop_percent == 1200
min_sample_size == 100
sigma_threshold == 200

(***************************************************************************)
(* Exact arithmetic on naturals beyond the 32-bit integers of TLC:         *)
(* little-endian limbs in base 10000.  Python floats carry 53 bits, enough *)
(* for every product below; the comparisons the code makes on floats are   *)
(* made here on the exact values.                                          *)
(***************************************************************************)
Base == 10000

RECURSIVE BigOf(_)
BigOf(n) == IF n = 0 THEN <<>> ELSE <<n % Base>> \o BigOf(n \div Base)

RECURSIVE BigNorm(_)
BigNorm(a) == IF a = <<>> THEN <<>>
              ELSE IF a[Len(a)] = 0 THEN BigNorm(SubSeq(a, 1, Len(a) - 1)) ELSE a

RECURSIVE BigAddC(_, _, _)
BigAddC(a, b, c) ==
    IF a = <<>> /\ b = <<>> THEN (IF c = 0 THEN <<>> ELSE <<c>>)
    ELSE LET x == IF a = <<>> THEN 0 ELSE Head(a)
             y == IF b = <<>> THEN 0 ELSE Head(b)
             s == x + y + c
         IN <<s % Base>> \o BigAddC(IF a = <<>> THEN <<>> ELSE Tail(a),
                                    IF b = <<>> THEN <<>> ELSE Tail(b),
                                    s \div Base)

RECURSIVE BigScaleC(_, _, _)
BigScaleC(a, d, c) ==
    IF a = <<>> THEN (IF c = 0 THEN <<>> ELSE <<c>>)
    ELSE LET s == Head(a) * d + c
         IN <<s % Base>> \o BigScaleC(Tail(a), d, s \div Base)

RECURSIVE BigMul(_, _)
BigMul(a, b) ==
    IF a = <<>> \/ b = <<>> THEN <<>>
    ELSE BigNorm(BigAddC(BigScaleC(b, Head(a), 0), <<0>> \o BigMul(Tail(a), b), 0))

RECURSIVE BigLeqFrom(_, _, _)
BigLeqFrom(a, b, i) ==
    IF i = 0 THEN TRUE
    ELSE IF a[i] < b[i] THEN TRUE
    ELSE IF a[i] > b[i] THEN FALSE
    ELSE BigLeqFrom(a, b, i - 1)

BigLeq(a, b) ==
    IF Len(a) < Len(b) THEN TRUE
    ELSE IF Len(a) > Len(b) THEN FALSE
    ELSE BigLeqFrom(a, b, Len(a))

Abs(x) == IF x < 0 THEN -x ELSE x

\* round(num / den) to the nearest integer, ties to even, as Python's round
RoundHalfEven(num, den) ==
    LET q == num \div den
        r == num % den
    IN IF 2 * r < den THEN q
       ELSE IF 2 * r > den THEN q + 1
       ELSE IF q % 2 = 0 THEN q ELSE q + 1

(***************************************************************************)
(* Funnel metrics (metrics_calculator.py).  A cohort is given by its size  *)
(* and by the number of its sessions that reached the success marker.      *)
(***************************************************************************)
Pct(x) == x * 100

ConversionRate_fraction(completed, total) ==
    IF total > 0 THEN RoundHalfEven(completed * 100, total) ELSE 0

\* conversion_rate = round(completed / total * 100, 2), 0 for no sessions
ConversionRate(completed, total) ==
    IF total > 0 THEN RoundHalfEven(completed * 10000, total) ELSE 0

\* drop_off_rate = round(100.0 - conversion_rate, 2) on the unrounded rate
DropOffRate(completed, total) ==
    IF total > 0 THEN RoundHalfEven((total - completed) * 10000, total) ELSE Pct(100)

calculate_funnel_metrics(funnel_step, total, completed) ==
    IF total = 0
    THEN [funnel_step |-> funnel_step, total_sessions |-> 0,
          completed_sessions |-> 0, conversion_rate |-> 0,
          drop_off_rate |-> Pct(100)]
    ELSE [funnel_step |-> funnel_step, total_sessions |-> total,
          completed_sessions |-> completed,
          conversion_rate |-> ConversionRate(completed, total),
          drop_off_rate |-> DropOffRate(completed, total)]

compare_with_baseline(current, baseline) ==
    LET conv_rate_delta == current.conversion_rate - baseline.conversion_rate
        drop_detected == conv_rate_delta < -min_drop_percent
    IN [current |-> current,
        baseline |-> baseline,
        conversion_rate_delta |-> conv_rate_delta,
        sessions_delta |-> current.total_sessions - baseline.total_sessions,
        drop_detected |-> drop_detected,
        drop_percentage |-> IF drop_detected THEN Some(Abs(conv_rate_delta)) ELSE None]

(***************************************************************************)
(* Two-proportion z-test (anomaly_detector.py).  The z-score is carried as *)
(* the exact fraction z^2 = num / den; 0.0 is num = 0, den = 1.            *)
(***************************************************************************)
ZeroSigma == [num |-> BigOf(0), den |-> BigOf(1)]

calculate_sigma_unguarded(current_rate, baseline_rate, current_n, baseline_n) ==
    LET n == current_n + baseline_n
        s == current_rate * current_n + baseline_rate * baseline_n
        d == Abs(current_rate - baseline_rate)
    IN [num |-> BigMul(BigOf(d * d + 1), BigMul(BigOf(n * current_n), BigOf(baseline_n))),
        den |-> BigMul(BigOf(s), BigOf(10000 * n - s))]

calculate_sigma(current_rate, baseline_rate, current_n, baseline_n) ==
    IF current_n + baseline_n = 0 \/ current_n = 0 \/ baseline_n = 0
    THEN ZeroSigma                      \* ZeroDivisionError, caught: 0.0
    ELSE LET n == current_n + baseline_n
             s == current_rate * current_n + baseline_rate * baseline_n
             d == Abs(current_rate - baseline_rate)
             \* se^2 = s (10^4 n - s) / (10^8 n n1 n2),  (p1 - p2)^2 = d^2 / 10^8
             sePart == BigMul(BigOf(s), BigOf(10000 * n - s))
         IN IF sePart = BigOf(0)
            THEN ZeroSigma              \* se == 0
            ELSE [num |-> BigMul(BigOf(d * d), BigMul(BigOf(n * current_n), BigOf(baseline_n))),
                  den |-> sePart]

\* z >= k / 100
SigmaAtLeast(z, k) ==
    BigLeq(BigMul(BigOf(k * k), z.den), BigMul(BigOf(10000), z.num))

\* 100 z >= k - 1/2, i.e. round(z, 2) >= k / 100
SigmaRoundsTo(z, k) ==
    k = 0 \/ BigLeq(BigMul(BigOf((2 * k - 1) * (2 * k - 1)), z.den),
                    BigMul(BigOf(40000), z.num))

SigmaCeiling == 10000

RECURSIVE RoundSearch(_, _, _)
RoundSearch(z, lo, hi) ==
    IF hi - lo <= 1 THEN lo
    ELSE LET mid == (lo + hi) \div 2
         IN IF SigmaRoundsTo(z, mid) THEN RoundSearch(z, mid, hi)
            ELSE RoundSearch(z, lo, mid)

\* round(sigma_value, 2), in hundredths
RoundSigma(z) == RoundSearch(z, 0, SigmaCeiling)

InsufficientSample_off(comparison) == FALSE

\* the rejections of detect_anomaly that come before the significance test
InsufficientSample(comparison) ==
    comparison.current.total_sessions < min_sample_size

NoSignificantDrop_off(comparison) == FALSE

NoSignificantDrop(comparison) ==
    comparison.conversion_rate_delta >= -min_drop_percent

\* detect_anomaly: None, or the Anomaly it emits
detect_anomaly(funnel_step, queryOk, cur, base, now) ==
    IF ~queryOk THEN None               \* the comparison raised: return None
    ELSE
    LET comparison == compare_with_baseline(
                          calculate_funnel_metrics(funnel_step, cur[1], cur[2]),
                          calculate_funnel_metrics(funnel_step, base[1], base[2]))
        drop_pct == Abs(comparison.conversion_rate_delta)
        sigma_value == calculate_sigma(comparison.current.conversion_rate,
                                       comparison.baseline.conversion_rate,
                                       comparison.current.total_sessions,
                                       comparison.baseline.total_sessions)
        is_significant == SigmaAtLeast(sigma_value, sigma_threshold)
    IN IF InsufficientSample(comparison) THEN None
       ELSE IF NoSignificantDrop(comparison) THEN None
       ELSE IF ~is_significant THEN None
       ELSE Some([funnel_step |-> funnel_step,
                  detected_at |-> now,
                  current_conversion_rate |-> comparison.current.conversion_rate,
                  baseline_conversion_rate |-> comparison.baseline.conversion_rate,
                  drop_percentage |-> drop_pct,
                  sigma_value |-> RoundSigma(sigma_value),
                  is_significant |-> is_significant,
                  current_sessions |-> comparison.current.total_sessions,
                  baseline_sessions |-> comparison.baseline.total_sessions])

(***************************************************************************)
(* Issue lifecycle manager (issue_manager.py).                             *)
(***************************************************************************)
Tasks == 1 .. MaxTasks

\* funnel step names, character by character
login_form == <<"l", "o", "g", "i", "n", "_", "f", "o", "r", "m">>
loginform == <<"l", "o", "g", "i", "n", "f", "o", "r", "m">>

NotUnderscore(c) == c # "_"

\* f"issue_{timestamp}_{step}" with step = funnel_step.replace("_", ""):
\* the timestamp is all digits and the step has no underscore left, so the
\* string is determined by, and determines, the pair below
generate_issue_id(anomaly) ==
    <<anomaly.detected_at, SelectSeq(anomaly.funnel_step, NotUnderscore)>>

calculate_severity_strict(drop_percentage) ==
    IF drop_percentage > Pct(20) THEN "critical"
    ELSE IF drop_percentage > Pct(15) THEN "high"
    ELSE IF drop_percentage > Pct(12) THEN "medium"
    ELSE "low"

calculate_severity(drop_percentage) ==
    IF drop_percentage >= Pct(20) THEN "critical"
    ELSE IF drop_percentage >= Pct(15) THEN "high"
    ELSE IF drop_percentage >= Pct(12) THEN "medium"
    ELSE "low"

HourMs == 3600000

\* the Evidence of a step and window; its content is the aggregate of the
\* stored events of that step in [start_time, end_time]
collect_evidence(funnel_step, start_time, end_time) ==
    [funnel_step |-> funnel_step, start_time |-> start_time, end_time |-> end_time]

NewIssue_unclassified(issue_id, severity, anomaly, evidence, now) ==
    [id |-> issue_id,
     status |-> "detected",
     severity |-> "low",
     anomaly |-> anomaly,
     evidence |-> evidence,
     diagnosis |-> None,
     created_at |-> anomaly.detected_at,
     diagnosed_at |-> None,
     fixed_at |-> None,
     measured_at |-> None,
     fix_commit_sha |-> None,
     fix_pr_url |-> None,
     jira_ticket_key |-> None,
     post_fix_conversion_rate |-> None,
     uplift_percentage |-> None,
     updated_at |-> now]

\* Issue(id=..., status=DETECTED, ...) with the defaults of models/issues.py
NewIssue(issue_id, severity, anomaly, evidence, now) ==
    [id |-> issue_id,
     status |-> "detected",
     severity |-> severity,
     anomaly |-> anomaly,
     evidence |-> evidence,
     diagnosis |-> None,
     created_at |-> anomaly.detected_at,
     diagnosed_at |-> None,
     fixed_at |-> None,
     measured_at |-> None,
     fix_commit_sha |-> None,
     fix_pr_url |-> None,
     jira_ticket_key |-> None,
     post_fix_conversion_rate |-> None,
     uplift_percentage |-> None,
     updated_at |-> now]

\* the row INSERT OR REPLACE writes for an Issue
IssueRow(issue) ==
    [issue_id |-> issue.id,
     funnel_step |-> issue.anomaly.funnel_step,
     severity |-> issue.severity,
     status |-> issue.status,
     detected_at |-> issue.anomaly.detected_at,
     current_conversion_rate |-> issue.anomaly.current_conversion_rate,
     baseline_conversion_rate |-> issue.anomaly.baseline_conversion_rate,
     drop_percentage |-> issue.anomaly.drop_percentage,
     sigma_value |-> issue.anomaly.sigma_value,
     diagnosis |-> IF issue.diagnosis = None THEN None
                   ELSE Some(issue.diagnosis[1].root_cause),
     github_pr |-> issue.fix_pr_url,
     jira_ticket |-> issue.jira_ticket_key,
     is_significant |-> issue.anomaly.is_significant,
     current_sessions |-> issue.anomaly.current_sessions,
     baseline_sessions |-> issue.anomaly.baseline_sessions,
     updated_at |-> issue.updated_at]

\* _save_issue_to_db: the row replaces the one of the same issue_id; when
\* sqlite raises, the except clause logs and the table is left as it was
save_issue_to_db(table, issue, ok) ==
    IF ok THEN (issue.id :> IssueRow(issue)) @@ table ELSE table

SaveOutcomes == IF storeFaulty THEN {TRUE, FALSE} ELSE {TRUE}

SavedAs(ok) == IF ok THEN "ok" ELSE "failed"

IssueExists_never(issue_id, dict) == FALSE

\* issue_id in self.issues
IssueExists(issue_id, dict) == issue_id \in DOMAIN dict

\* self.issues.get(issue_id): the object, or None
GetIssue(dict, issue_id) ==
    IF issue_id \in DOMAIN dict THEN Some(dict[issue_id]) ELSE None

NotIssue_never(found) == FALSE

\* "if not issue": an Issue object is truthy, None is not
NotIssue(found) == found = None

(***************************************************************************)
(* Diagnosis provider (deepseek_client.py).  What the chat completion call *)
(* can do: answer with a JSON object that has the diagnosis fields ("ok"), *)
(* answer with a JSON object that lacks some of them ("incomplete"),       *)
(* answer with text that is not JSON ("badjson"), raise ("throws") or run  *)
(* into the client's request timeout ("timeout").                          *)
(***************************************************************************)
ProviderOutcomes == {"ok", "incomplete", "badjson", "throws", "timeout"}

FallbackDiagnosis ==
    [root_cause |-> Some("Unable to diagnose - AI service error"),
     confidence |-> Some(0),
     explanation |-> Some("Manual investigation required."),
     recommended_actions |-> "generic",
     code_locations |-> "none",
     model_used |-> "fallback",
     diagnosis_time_ms |-> 0]

\* diagnose_conversion_drop: the dict it returns; every exception inside
\* its try block (the call, json.loads) yields the fallback dict
diagnose_conversion_drop(outcome) ==
    IF outcome = "ok"
    THEN [root_cause |-> Some("root cause"),
          confidence |-> Some(90),
          explanation |-> Some("explanation"),
          recommended_actions |-> "specific",
          code_locations |-> "file",
          model_used |-> "deepseek-chat",
          diagnosis_time_ms |-> 1]
    ELSE IF outcome = "incomplete"
    THEN [root_cause |-> None,
          confidence |-> Some(90),
          explanation |-> None,
          recommended_actions |-> "specific",
          code_locations |-> "file",
          model_used |-> "deepseek-chat",
          diagnosis_time_ms |-> 1]
    ELSE FallbackDiagnosis

\* AIDiagnosis(**diagnosis_dict) validates: root_cause, confidence and
\* explanation are required fields
ValidDiagnosis(d) ==
    d.root_cause # None /\ d.confidence # None /\ d.explanation # None

AIDiagnosis(d) ==
    [root_cause |-> d.root_cause[1],
     confidence |-> d.confidence[1],
     explanation |-> d.explanation[1],
     recommended_actions |-> d.recommended_actions,
     code_locations |-> d.code_locations,
     model_used |-> d.model_used,
     diagnosis_time_ms |-> d.diagnosis_time_ms]

\* _load_issues_from_db: self.issues as __init__ rebuilds it from the rows
\* of the issues table; the Issue objects are given by value
load_issues_from_db(table) ==
    [id \in DOMAIN table |->
        LET row == table[id]
            anomaly == [funnel_step |-> row.funnel_step,
                        detected_at |-> row.detected_at,
                        current_conversion_rate |-> row.current_conversion_rate,
                        baseline_conversion_rate |-> row.baseline_conversion_rate,
                        drop_percentage |-> row.drop_percentage,
                        sigma_value |-> row.sigma_value,
                        is_significant |-> row.is_significant,
                        current_sessions |-> row.current_sessions,
                        baseline_sessions |-> row.baseline_sessions]
            diagnosis == IF row.diagnosis # None /\ row.diagnosis[1] # ""
                         THEN Some([root_cause |-> row.diagnosis[1],
                                    confidence |-> 85,
                                    explanation |-> "Loaded from database",
                                    recommended_actions |-> "generic",
                                    code_locations |-> "none",
                                    model_used |-> "deepseek-chat",
                                    diagnosis_time_ms |-> 0])
                         ELSE None
        IN [NewIssue(row.issue_id, row.severity, anomaly, None, row.updated_at)
               EXCEPT !.status = row.status,
                      !.diagnosis = diagnosis,
                      !.fix_pr_url = row.github_pr,
                      !.jira_ticket_key = row.jira_ticket]]

(***************************************************************************)
(* Coroutines.  The handlers run on one event loop; a coroutine gives up   *)
(* control only where an await really suspends.  The sqlite calls of       *)
(* collect_evidence / query_events and of _save_issue_to_db are blocking   *)
(* calls with no await inside, so the only suspension point of a lifecycle *)
(* operation is the chat completion request of diagnose_conversion_drop.   *)
(***************************************************************************)
NoReturn ==
    [task |-> 0, op |-> "none", id |-> None, arg |-> None, kind |-> "none",
     issue |-> None, existing |-> FALSE, provider |-> "none", saved |-> "none",
     seen |-> "none", before |-> "none", overlap |-> FALSE]

\* a call returns (kind "ok") or raises (kind "NotFound" for ValueError,
\* "error" for any other exception).  seen: the status the operation read
\* when it fetched the issue; before: the status just before this step;
\* overlap: a create_issue call for the same id ran while another was suspended.
Return(t, op, issue_id, kind, issue, existing, provider, saved, seen, before) ==
    [task |-> t, op |-> op, id |-> Some(issue_id), arg |-> None, kind |-> kind,
     issue |-> issue, existing |-> existing, provider |-> provider,
     saved |-> saved, seen |-> seen, before |-> before, overlap |-> FALSE]

\* the return of a create_issue call, with the anomaly it was called with
ReturnCreated(t, anomaly, issue_id, issue, existing, saved, before) ==
    [Return(t, "create_issue", issue_id, "ok", issue, existing, "none", saved,
            "none", before) EXCEPT !.arg = Some(anomaly)]

Raise(t, op, issue_id, kind) ==
    Return(t, op, issue_id, kind, None, FALSE, "none", "none", "none", "none")

IdleTask ==
    [pc |-> "idle", op |-> "none", id |-> None, issue |-> None,
     saved |-> "none", seen |-> "none", joined |-> FALSE]

Suspended(op, issue_id, issue, saved, seen) ==
    [pc |-> "await_provider", op |-> op, id |-> Some(issue_id),
     issue |-> issue, saved |-> saved, seen |-> seen, joined |-> FALSE]

\* the create_issue calls for issue_id that are suspended in diagnose_issue
Creating(issue_id) ==
    {u \in Tasks : /\ tasks[u].pc # "idle"
                   /\ tasks[u].op = "create_issue"
                   /\ tasks[u].id = Some(issue_id)}

\* the cohorts (total sessions, completed sessions) of the current and the
\* baseline window that the scans of the lifecycle runs see
ScanCohorts ==
    { <<<<100, 0>>, <<100, 87>>>>,
      <<<<200, 148>>, <<200, 174>>>> }

ScanSteps == {login_form}

\* detect_anomaly depends on the time of the scan only through detected_at
ScanResult ==
    [step \in ScanSteps, cohorts \in ScanCohorts |->
        detect_anomaly(step, TRUE, cohorts[1], cohorts[2], 0)]

\* an id no issue ever has
UnknownId == <<0, <<"x">>>>

\* coroutines are interchangeable: a new call takes the first idle one
FreeTasks ==
    {t \in Tasks : tasks[t].pc = "idle" /\ \A u \in 1..(t - 1) : tasks[u].pc # "idle"}

CallIds == {generate_issue_id(a) : a \in anomalies} \cup {UnknownId}

\* the (commit_sha, pr_url) arguments of mark_fixed: both Optional
FixRefs == {<<None, None>>, <<Some("c1"), Some("p1")>>}
JiraKeys == {"CONV-1"}

\* uniform(2, 8), in hundredths
UniformDraws == {200, 800}

\* one step of scan_all_funnel_steps that emits an anomaly
DetectAnomaly(step, cohorts) ==
    /\ clock < MaxClock
    /\ clock' = clock + 1
    /\ ScanResult[step, cohorts] # None
    /\ LET found == [ScanResult[step, cohorts][1] EXCEPT !.detected_at = clock]
       IN /\ found \notin anomalies
          /\ anomalies' = anomalies \cup {found}
    /\ ret' = NoReturn
    /\ UNCHANGED <<heap, issues, db, tasks, evidenceLog, dbWrites,
                   storeFaulty, dIn, dOut>>

\* create_issue up to its return or to the provider request of the
\* diagnose_issue it calls
CreateIssue(t, anomaly, auto_diagnose) ==
    /\ tasks[t].pc = "idle"
    /\ clock < MaxClock
    /\ clock' = clock + 1
    /\ LET issue_id == generate_issue_id(anomaly)
       IN IF IssueExists(issue_id, issues)
          THEN /\ ret' = [ReturnCreated(t, anomaly, issue_id,
                                        Some(issues[issue_id]), TRUE, "none",
                                        heap[issues[issue_id]].status)
                           EXCEPT !.overlap = Creating(issue_id) # {}]
               /\ tasks' = [u \in Tasks |->
                              IF u \in Creating(issue_id)
                              THEN [tasks[u] EXCEPT !.joined = TRUE]
                              ELSE tasks[u]]
               /\ UNCHANGED <<heap, issues, db, evidenceLog, dbWrites>>
          ELSE LET severity == calculate_severity(anomaly.drop_percentage)
                   end_time == anomaly.detected_at
                   start_time == end_time - HourMs
                   evidence == collect_evidence(anomaly.funnel_step,
                                                start_time, end_time)
                   issue == NewIssue(issue_id, severity, anomaly, evidence, clock)
                   obj == Len(heap) + 1
               IN \E ok \in SaveOutcomes :
                    /\ evidenceLog' = Append(evidenceLog, evidence)
                    /\ heap' = Append(heap, issue)
                    /\ issues' = (issue_id :> obj) @@ issues
                    /\ db' = save_issue_to_db(db, issue, ok)
                    /\ dbWrites' = dbWrites + 1
                    /\ IF auto_diagnose
                       THEN /\ tasks' = [tasks EXCEPT ![t] =
                                   Suspended("create_issue", issue_id, Some(obj),
                                             SavedAs(ok), "detected")]
                            /\ ret' = NoReturn
                       ELSE /\ tasks' = tasks
                            /\ ret' = ReturnCreated(t, anomaly, issue_id,
                                                    Some(obj), FALSE,
                                                    SavedAs(ok), "none")
    /\ UNCHANGED <<anomalies, storeFaulty, dIn, dOut>>

\* diagnose_issue up to the provider request
DiagnoseIssue(t, issue_id) ==
    /\ tasks[t].pc = "idle"
    /\ clock < MaxClock
    /\ clock' = clock + 1
    /\ LET issue == GetIssue(issues, issue_id)
       IN IF NotIssue(issue) \/ issue = None
          THEN /\ ret' = Raise(t, "diagnose_issue", issue_id,
                               IF NotIssue(issue) THEN "NotFound" ELSE "error")
               /\ tasks' = tasks
          ELSE /\ ret' = NoReturn
               /\ tasks' = [tasks EXCEPT ![t] =
                      Suspended("diagnose_issue", issue_id, issue, "none",
                                heap[issue[1]].status)]
    /\ UNCHANGED <<anomalies, heap, issues, db, evidenceLog, dbWrites,
                   storeFaulty, dIn, dOut>>

\* diagnose_issue from the completion of the provider request to its end; a
\* create_issue that called it returns (or raises) with it
Resumed(t, outcome) ==
    /\ tasks' = [tasks EXCEPT ![t] = IdleTask]
    /\ LET obj == tasks[t].issue[1]
           issue_id == tasks[t].id[1]
           diagnosis_dict == diagnose_conversion_drop(outcome)
       IN IF ~ValidDiagnosis(diagnosis_dict)
          THEN /\ ret' = [Return(t, tasks[t].op, issue_id, "error", None, FALSE,
                                 outcome, tasks[t].saved, tasks[t].seen,
                                 heap[obj].status)
                           EXCEPT !.overlap = tasks[t].joined]
               /\ UNCHANGED <<heap, db, dbWrites>>
          ELSE \E ok \in SaveOutcomes :
                 LET issue == [heap[obj] EXCEPT
                                  !.diagnosis = Some(AIDiagnosis(diagnosis_dict)),
                                  !.status = "diagnosed",
                                  !.diagnosed_at = Some(clock)]
                 IN /\ heap' = [heap EXCEPT ![obj] = issue]
                    /\ db' = save_issue_to_db(db, issue, ok)
                    /\ dbWrites' = dbWrites + 1
                    /\ ret' = [Return(t, tasks[t].op, issue_id, "ok", Some(obj),
                                      FALSE, outcome,
                                      IF tasks[t].saved = "failed" THEN "failed"
                                      ELSE SavedAs(ok),
                                      tasks[t].seen, heap[obj].status)
                                EXCEPT !.overlap = tasks[t].joined]
    /\ UNCHANGED <<clock, anomalies, issues, evidenceLog,
                   storeFaulty, dIn, dOut>>

\* the provider request completes and the coroutine runs on
ProviderRespond(t, outcome) ==
    /\ tasks[t].pc = "await_provider"
    /\ Resumed(t, outcome)

\* the same in two steps.  First the request completes: the provider has
\* answered or the client has raised.  The request is made without a timeout
\* argument and the client is built without one, so nothing in the program
\* makes this step happen.
ProviderAnswers(t) ==
    /\ tasks[t].pc = "await_provider"
    /\ tasks' = [tasks EXCEPT ![t].pc = "answered"]
    /\ ret' = NoReturn
    /\ UNCHANGED <<clock, anomalies, heap, issues, db, evidenceLog, dbWrites,
                   storeFaulty, dIn, dOut>>

\* then the event loop resumes the coroutine, which it does for every
\* coroutine whose awaited request is complete
Resume(t) ==
    /\ tasks[t].pc = "answered"
    /\ \E outcome \in ProviderOutcomes : Resumed(t, outcome)

MarkJiraCreated(t, issue_id, jira_ticket_key) ==
    /\ tasks[t].pc = "idle"
    /\ clock < MaxClock
    /\ clock' = clock + 1
    /\ LET found == GetIssue(issues, issue_id)
       IN IF NotIssue(found) \/ found = None
          THEN /\ ret' = Raise(t, "mark_jira_created", issue_id,
                               IF NotIssue(found) THEN "NotFound" ELSE "error")
               /\ UNCHANGED <<heap, db, dbWrites>>
          ELSE \E ok \in SaveOutcomes :
                 LET obj == found[1]
                     issue == [heap[obj] EXCEPT
                                  !.jira_ticket_key = Some(jira_ticket_key),
                                  !.updated_at = clock]
                 IN /\ heap' = [heap EXCEPT ![obj] = issue]
                    /\ db' = save_issue_to_db(db, issue, ok)
                    /\ dbWrites' = dbWrites + 1
                    /\ ret' = Return(t, "mark_jira_created", issue_id, "ok",
                                     Some(obj), FALSE, "none", SavedAs(ok),
                                     heap[obj].status, heap[obj].status)
    /\ UNCHANGED <<anomalies, issues, tasks, evidenceLog, storeFaulty,
                   dIn, dOut>>

MarkFixed(t, issue_id, commit_sha, pr_url) ==
    /\ tasks[t].pc = "idle"
    /\ clock < MaxClock
    /\ clock' = clock + 1
    /\ LET found == GetIssue(issues, issue_id)
       IN IF NotIssue(found) \/ found = None
          THEN /\ ret' = Raise(t, "mark_fixed", issue_id,
                               IF NotIssue(found) THEN "NotFound" ELSE "error")
               /\ UNCHANGED <<heap, db, dbWrites>>
          ELSE \E ok \in SaveOutcomes :
                 LET obj == found[1]
                     issue == [heap[obj] EXCEPT
                                  !.status = "fixed",
                                  !.fixed_at = Some(clock),
                                  !.fix_commit_sha = commit_sha,
                                  !.fix_pr_url = pr_url,
                                  !.updated_at = clock]
                 IN /\ heap' = [heap EXCEPT ![obj] = issue]
                    /\ db' = save_issue_to_db(db, issue, ok)
                    /\ dbWrites' = dbWrites + 1
                    /\ ret' = [Return(t, "mark_fixed", issue_id, "ok", Some(obj),
                                      FALSE, "none", SavedAs(ok),
                                      heap[obj].status, heap[obj].status)
                                EXCEPT !.arg = Some(<<commit_sha, pr_url>>)]
    /\ UNCHANGED <<anomalies, issues, tasks, evidenceLog, storeFaulty,
                   dIn, dOut>>

\* uplift = (post_fix_rate - current) / current * 100, rounded to 2 places
Uplift(post_fix_rate, current_rate) ==
    RoundHalfEven((post_fix_rate - current_rate) * 10000, current_rate)

\* measure_impact; draw is the value of uniform(2, 8).  The division raises
\* ZeroDivisionError for a current rate of 0, before any field is assigned.
\* The method does not call _save_issue_to_db.
MeasureImpact(t, issue_id, draw) ==
    /\ tasks[t].pc = "idle"
    /\ clock < MaxClock
    /\ clock' = clock + 1
    /\ LET found == GetIssue(issues, issue_id)
       IN IF NotIssue(found) \/ found = None
          THEN /\ ret' = Raise(t, "measure_impact", issue_id,
                               IF NotIssue(found) THEN "NotFound" ELSE "error")
               /\ UNCHANGED heap
          ELSE LET obj == found[1]
                   anomaly == heap[obj].anomaly
                   post_fix_rate == anomaly.baseline_conversion_rate + draw
               IN IF anomaly.current_conversion_rate = 0
                  THEN /\ ret' = Return(t, "measure_impact", issue_id, "error",
                                        None, FALSE, "none", "none",
                                        heap[obj].status, heap[obj].status)
                       /\ UNCHANGED heap
                  ELSE /\ heap' = [heap EXCEPT ![obj] =
                              [heap[obj] EXCEPT
                                  !.post_fix_conversion_rate = Some(post_fix_rate),
                                  !.uplift_percentage =
                                      Some(Uplift(post_fix_rate,
                                                  anomaly.current_conversion_rate)),
                                  !.measured_at = Some(clock),
                                  !.status = "verified"]]
                       /\ ret' = Return(t, "measure_impact", issue_id, "ok",
                                        Some(obj), FALSE, "none", "none",
                                        heap[obj].status, heap[obj].status)
    /\ UNCHANGED <<anomalies, issues, db, tasks, evidenceLog, dbWrites,
                   storeFaulty, dIn, dOut>>

(***************************************************************************)
(* Detector runs: detect_anomaly applied to one pair of cohorts.           *)
(***************************************************************************)
CurrentTotals == {0, 50, 99, 100, 300}
BaselineTotals == {0, 5, 100, 650}
Shares == {0, 40, 52, 60, 74, 75, 87, 88, 100}

Cohorts(totals) == {<<n, (n * s) \div 100>> : n \in totals, s \in Shares}

DetectorInputs ==
    [funnel_step : {login_form}, queryOk : BOOLEAN,
     current : Cohorts(CurrentTotals), baseline : Cohorts(BaselineTotals)]

NoRun == [done |-> FALSE, result |-> None]

DetectRun ==
    /\ ~dOut.done
    /\ dOut' = [done |-> TRUE,
                result |-> detect_anomaly(dIn.funnel_step, dIn.queryOk,
                                          dIn.current, dIn.baseline, clock)]
    /\ UNCHANGED <<clock, anomalies, heap, issues, db, tasks, evidenceLog,
                   dbWrites, ret, storeFaulty, dIn>>

(***************************************************************************)
(* Severity runs: _calculate_severity applied to one drop percentage.      *)
(***************************************************************************)
DropValues == {-1, -Pct(5)} \cup (0 .. MaxDrop)

SeverityRun ==
    /\ ~dOut.done
    /\ dOut' = [done |-> TRUE, result |-> calculate_severity(dIn.drop_percentage)]
    /\ UNCHANGED <<clock, anomalies, heap, issues, db, tasks, evidenceLog,
                   dbWrites, ret, storeFaulty, dIn>>

(***************************************************************************)
(* Scan runs: scan_all_funnel_steps applied to a list of funnel steps.     *)
(* The event store is given by the cohorts each step has in the current    *)
(* and in the baseline window; it does not change during a scan, because   *)
(* no await of the scan suspends.  tick is the time one detection takes.   *)
(***************************************************************************)
signup == <<"s", "i", "g", "n", "u", "p">>

ScanNames == {login_form, loginform, signup}

CohortChoices ==
    { <<<<100, 0>>, <<100, 87>>>>,
      <<<<200, 148>>, <<200, 174>>>>,
      <<<<50, 26>>, <<100, 87>>>> }

\* detect_anomaly for every step and pair of cohorts, at time 0
DetectTable ==
    [step \in ScanNames, cohorts \in CohortChoices |->
        detect_anomaly(step, TRUE, cohorts[1], cohorts[2], 0)]

DetectAt(step, cohorts, now) ==
    IF DetectTable[step, cohorts] = None THEN None
    ELSE Some([DetectTable[step, cohorts][1] EXCEPT !.detected_at = now])

RECURSIVE ScanFrom_stop(_, _, _, _, _, _)
ScanFrom_stop(funnel_steps, store, now, tick, i, found) ==
    IF i > Len(funnel_steps) \/ found # <<>> THEN found
    ELSE LET anomaly == DetectAt(funnel_steps[i], store[funnel_steps[i]],
                                 now + tick * (i - 1))
         IN ScanFrom_stop(funnel_steps, store, now, tick, i + 1,
                          IF anomaly # None THEN Append(found, anomaly[1])
                          ELSE found)

\* the loop of scan_all_funnel_steps from the i-th step on
RECURSIVE ScanFrom(_, _, _, _, _, _)
ScanFrom(funnel_steps, store, now, tick, i, found) ==
    IF i > Len(funnel_steps) THEN found
    ELSE LET anomaly == DetectAt(funnel_steps[i], store[funnel_steps[i]],
                                 now + tick * (i - 1))
         IN ScanFrom(funnel_steps, store, now, tick, i + 1,
                     IF anomaly # None THEN Append(found, anomaly[1])
                     ELSE found)

scan_all_funnel_steps(funnel_steps, store, now, tick) ==
    ScanFrom(funnel_steps, store, now, tick, 1, <<>>)

StepLists == UNION {[1 .. n -> ScanNames] : n \in 0 .. MaxScanLen}

Orders(n) == {f \in [1 .. n -> 1 .. n] : \A i, j \in 1 .. n : f[i] = f[j] => i = j}

Reordered(funnel_steps, order) ==
    [k \in 1 .. Len(funnel_steps) |-> funnel_steps[order[k]]]

ScanInputs ==
    UNION {[funnel_steps : {l}, order : Orders(Len(l)),
            store : [ScanNames -> CohortChoices], tick : {0, 1}] : l \in StepLists}

\* one scan of the list and one scan of the reordered list
ScanRun ==
    /\ ~dOut.done
    /\ dOut' = [done |-> TRUE,
                result |->
                    [anomalies |-> scan_all_funnel_steps(dIn.funnel_steps,
                                       dIn.store, clock, dIn.tick),
                     reordered |-> scan_all_funnel_steps(
                                       Reordered(dIn.funnel_steps, dIn.order),
                                       dIn.store, clock, dIn.tick)]]
    /\ UNCHANGED <<clock, anomalies, heap, issues, db, tasks, evidenceLog,
                   dbWrites, ret, storeFaulty, dIn>>

(***************************************************************************)
(* list_issues (issue_manager.py).  A list of Issue objects is a sequence  *)
(* of heap indices.  dict.values() is in insertion order, which is the     *)
(* order of construction; list.sort is stable, also with reverse=True.     *)
(***************************************************************************)
\* list(self.issues.values())
RECURSIVE ValuesFrom(_, _, _)
ValuesFrom(dict, objs, o) ==
    IF o > Len(objs) THEN <<>>
    ELSE IF \E id \in DOMAIN dict : dict[id] = o
         THEN <<o>> \o ValuesFrom(dict, objs, o + 1)
         ELSE ValuesFrom(dict, objs, o + 1)

RECURSIVE SortedByCreation_oldest(_, _)
SortedByCreation_oldest(objs, list) ==
    IF list = <<>> THEN <<>>
    ELSE LET rest == SortedByCreation_oldest(objs, Tail(list))
             x == Head(list)
             before == SelectSeq(rest,
                           LAMBDA y : objs[y].created_at < objs[x].created_at)
             after == SelectSeq(rest,
                           LAMBDA y : objs[y].created_at >= objs[x].created_at)
         IN before \o <<x>> \o after

\* issues.sort(key=lambda i: i.created_at, reverse=True)
RECURSIVE SortedByCreation(_, _)
SortedByCreation(objs, list) ==
    IF list = <<>> THEN <<>>
    ELSE LET rest == SortedByCreation(objs, Tail(list))
             x == Head(list)
             before == SelectSeq(rest,
                           LAMBDA y : objs[y].created_at > objs[x].created_at)
             after == SelectSeq(rest,
                           LAMBDA y : objs[y].created_at <= objs[x].created_at)
         IN before \o <<x>> \o after

list_issues(dict, objs, status, severity) ==
    LET all == ValuesFrom(dict, objs, 1)
        byStatus == IF status # None
                    THEN SelectSeq(all, LAMBDA o : objs[o].status = status[1])
                    ELSE all
        bySeverity == IF severity # None
                      THEN SelectSeq(byStatus,
                               LAMBDA o : objs[o].severity = severity[1])
                      ELSE byStatus
    IN SortedByCreation(objs, bySeverity)

checkout == <<"c", "h", "e", "c", "k", "o", "u", "t">>

otp == <<"o", "t", "p">>

\* the steps of the issues of a listed store, by position
ListedSteps == <<login_form, signup, checkout, otp>>

ListedTimes == {1, 2}
ListedStatuses == {"detected", "fixed"}
ListedDrops == {1300, 8700}

\* an issue as create_issue and mark_fixed leave it
ListedIssue(step, detected_at, status, drop) ==
    LET anomaly == [DetectTable[login_form, <<<<100, 0>>, <<100, 87>>>>][1]
                       EXCEPT !.funnel_step = step, !.detected_at = detected_at,
                              !.drop_percentage = drop]
        issue == NewIssue(generate_issue_id(anomaly), calculate_severity(drop),
                          anomaly,
                          collect_evidence(step, detected_at - HourMs, detected_at),
                          detected_at)
    IN IF status = "fixed"
       THEN [issue EXCEPT !.status = "fixed", !.fixed_at = Some(detected_at)]
       ELSE issue

\* the heaps of up to MaxListed issues, the k-th being for the k-th step
ListedHeaps ==
    UNION {{[k \in 1 .. n |-> ListedIssue(ListedSteps[k], at[k], st[k], dr[k])] :
               at \in [1 .. n -> ListedTimes],
               st \in [1 .. n -> ListedStatuses],
               dr \in [1 .. n -> ListedDrops]} : n \in 0 .. MaxListed}

\* self.issues for a heap in which every object is stored under its id
DictOf(objs) ==
    [id \in {objs[o].id : o \in 1 .. Len(objs)} |->
        CHOOSE o \in 1 .. Len(objs) : objs[o].id = id]

StatusFilters == {None, Some("detected"), Some("fixed"), Some("verified")}
SeverityFilters == {None, Some("critical"), Some("medium"), Some("low")}

ListRun ==
    /\ ~dOut.done
    /\ dOut' = [done |-> TRUE,
                result |-> list_issues(issues, heap, dIn.status, dIn.severity)]
    /\ UNCHANGED <<clock, anomalies, heap, issues, db, tasks, evidenceLog,
                   dbWrites, ret, storeFaulty, dIn>>

(***************************************************************************)
(* Cohort runs: calculate_funnel_metrics over the rows of the events table *)
(* (metrics_calculator.py).  A row carries the columns the computation     *)
(* reads; the table is the sequence of its rows.                           *)
(***************************************************************************)
login_complete ==
    <<"l", "o", "g", "i", "n", "_", "c", "o", "m", "p", "l", "e", "t", "e">>

SessionIds == <<"s1", "s2">>

\* (funnel_step, event_type) of the rows of a bounded table
EventKinds ==
    <<<<login_form, "page_view">>, <<signup, "page_view">>,
      <<login_complete, "page_view">>, <<signup, "custom">>,
      <<login_form, "login_complete">>>>

EventTimes == 1 .. 4

\* the window (start_ts, end_ts) of a bounded run
WindowStart == 2
WindowEnd == 3

EventCodes == 0 .. (Len(SessionIds) * Cardinality(EventTimes) * Len(EventKinds) - 1)

\* the row with a given code
EventOf(c) ==
    LET kind == EventKinds[(c \div (Len(SessionIds) * Cardinality(EventTimes))) + 1]
    IN [session_id |-> SessionIds[(c % Len(SessionIds)) + 1],
        timestamp |-> ((c \div Len(SessionIds)) % Cardinality(EventTimes)) + 1,
        funnel_step |-> kind[1],
        event_type |-> kind[2]]

\* a table of n rows is numbered by the codes of its rows, one digit a row
RECURSIVE TableCount(_)
TableCount(n) == IF n = 0 THEN 1 ELSE Cardinality(EventCodes) * TableCount(n - 1)

CodeAt(table, k) == (table \div TableCount(k - 1)) % Cardinality(EventCodes)

\* one number for every table up to the order of its rows
Ascending(table, n) ==
    \A k \in 1 .. n - 1 : CodeAt(table, k) <= CodeAt(table, k + 1)

\* the rows of a table
RowsOf(table, n) == [k \in 1 .. n |-> EventOf(CodeAt(table, k))]

\* SELECT DISTINCT session_id FROM events
\* WHERE funnel_step = ? AND timestamp >= ? AND timestamp <= ?
RECURSIVE DistinctSessions(_, _)
DistinctSessions(rows, seen) ==
    IF rows = <<>> THEN seen
    ELSE LET id == Head(rows).session_id
         IN IF \E k \in 1 .. Len(seen) : seen[k] = id
            THEN DistinctSessions(Tail(rows), seen)
            ELSE DistinctSessions(Tail(rows), Append(seen, id))

CohortSessions(rows, funnel_step, start_ts, end_ts) ==
    DistinctSessions(
        SelectSeq(rows, LAMBDA e : /\ e.funnel_step = funnel_step
                                   /\ e.timestamp >= start_ts
                                   /\ e.timestamp <= end_ts),
        <<>>)

\* the rows fetched for the cohort, were only those of the window fetched
JourneyEvents_windowed(rows, session_ids, start_ts, end_ts) ==
    SelectSeq(rows, LAMBDA e : /\ \E k \in 1 .. Len(session_ids) :
                                      session_ids[k] = e.session_id
                               /\ e.timestamp >= start_ts
                               /\ e.timestamp <= end_ts)

\* SELECT * FROM events WHERE session_id IN (...)
JourneyEvents(rows, session_ids, start_ts, end_ts) ==
    SelectSeq(rows, LAMBDA e : \E k \in 1 .. Len(session_ids) :
                                   session_ids[k] = e.session_id)

completion_events == {"login_complete", "custom"}

\* has_success of one session's events
has_success(session_events) ==
    \E k \in 1 .. Len(session_events) :
        \/ session_events[k].event_type \in completion_events
        \/ session_events[k].funnel_step = login_complete

\* _calculate_from_events: group by session, count the groups and those
\* with has_success
calculate_from_events(events, funnel_step) ==
    LET sessions == DistinctSessions(events, <<>>)
        group(id) == SelectSeq(events, LAMBDA e : e.session_id = id)
        completed == SelectSeq(sessions, LAMBDA id : has_success(group(id)))
    IN calculate_funnel_metrics(funnel_step, Len(sessions), Len(completed))

funnel_metrics_from_table(rows, funnel_step, start_ts, end_ts) ==
    LET session_ids == CohortSessions(rows, funnel_step, start_ts, end_ts)
    IN IF Len(session_ids) = 0
       THEN calculate_funnel_metrics(funnel_step, 0, 0)
       ELSE calculate_from_events(
                JourneyEvents(rows, session_ids, start_ts, end_ts), funnel_step)

CohortInput(table, n) ==
    [rows |-> RowsOf(table, n), funnel_step |-> login_form,
     start_ts |-> WindowStart, end_ts |-> WindowEnd]

CohortRun ==
    /\ ~dOut.done
    /\ dOut' = [done |-> TRUE,
                result |-> funnel_metrics_from_table(dIn.rows, dIn.funnel_step,
                                                     dIn.start_ts, dIn.end_ts)]
    /\ UNCHANGED <<clock, anomalies, heap, issues, db, tasks, evidenceLog,
                   dbWrites, ret, storeFaulty, dIn>>

(***************************************************************************)
(* Evidence runs: collect_evidence over the rows of the events table       *)
(* (evidence_collector.py).  The table holds the events of sessions        *)
(* 1 .. n, the first k of one profile and the others of a second one.  A   *)
(* profile gives a session's error events (each with the session's own     *)
(* message, a message shared by all sessions, or the empty one), its       *)
(* resend clicks, and whether its events lie inside the window.            *)
(***************************************************************************)
demo_mode == FALSE

Profiles ==
    [errors : {0, 1}, retries : {0, 1, 2},
     message : {"own", "shared", "empty"}, inside : BOOLEAN]

MessageOf(i, profile) ==
    IF profile.message = "own" THEN <<"own", i>>
    ELSE IF profile.message = "shared" THEN <<"shared">>
    ELSE <<>>

\* the events of session i: a page view, then its errors, then its resends
SessionRows(i, profile) ==
    LET row(type, message) ==
            [session_id |-> i, event_type |-> type, funnel_step |-> login_form,
             timestamp |-> IF profile.inside THEN WindowStart ELSE WindowEnd + 1,
             error_type |-> IF type = "error" THEN Some(profile.message) ELSE None,
             error_message |-> message]
    IN <<row("page_view", <<>>)>>
       \o [j \in 1 .. profile.errors |-> row("error", MessageOf(i, profile))]
       \o [j \in 1 .. profile.retries |-> row("resend_click", <<>>)]

RECURSIVE StoredRows(_, _, _, _)
StoredRows(n, k, a, b) ==
    IF n = 0 THEN <<>>
    ELSE StoredRows(n - 1, k, a, b) \o SessionRows(n, IF n <= k THEN a ELSE b)

\* SELECT * FROM events WHERE funnel_step = ? AND timestamp >= ? AND
\* timestamp <= ? ORDER BY timestamp ASC (the rows matched here share one
\* timestamp, so the order is that of the table)
query_events(rows, start_time, end_time, funnel_step) ==
    SelectSeq(rows, LAMBDA e : /\ e.funnel_step = funnel_step
                               /\ e.timestamp >= start_time
                               /\ e.timestamp <= end_time)

\* the distinct non-empty messages of a list of error events, in order
RECURSIVE TopErrors(_, _)
TopErrors(errors, top_errors) ==
    IF errors = <<>> THEN top_errors
    ELSE LET error_msg == Head(errors).error_message
         IN IF error_msg # <<>>
               /\ ~\E j \in 1 .. Len(top_errors) : top_errors[j] = error_msg
            THEN TopErrors(Tail(errors), Append(top_errors, error_msg))
            ELSE TopErrors(Tail(errors), top_errors)

RECURSIVE Sum(_)
Sum(counts) == IF counts = <<>> THEN 0 ELSE Head(counts) + Sum(Tail(counts))

\* the lists list(struggling_sessions)[:10] can be: a set is listed in the
\* order of the hashes of its strings, which differs from process to process
FirstTen(struggling_sessions) ==
    IF Cardinality(struggling_sessions) <= 10 THEN {struggling_sessions}
    ELSE {kept \in SUBSET struggling_sessions : Cardinality(kept) = 10}

\* round(avg_retry, 1), in tenths, for a mean taken as the exact quotient
\* (the float quotient rounds the same way for fewer than 20 sessions)
AvgRetry_truncated(retry_counts) ==
    IF retry_counts = <<>> \/ Sum(retry_counts) = 0 THEN None
    ELSE Some((10 * Sum(retry_counts)) \div Len(retry_counts))

AvgRetry(retry_counts) ==
    IF retry_counts = <<>> \/ Sum(retry_counts) = 0 THEN None
    ELSE Some(RoundHalfEven(10 * Sum(retry_counts), Len(retry_counts)))

\* _analyze_events, with the list of struggling sessions that is kept
analyze_events(events, kept) ==
    LET sessions == DistinctSessions(events, <<>>)
        group(id) == SelectSeq(events, LAMBDA e : e.session_id = id)
        retry_count(id) ==
            Len(SelectSeq(group(id), LAMBDA e : e.event_type = "resend_click"))
        errors == SelectSeq(events, LAMBDA e : e.event_type = "error")
        retry_counts ==
            [j \in 1 .. Len(SelectSeq(sessions, LAMBDA id : retry_count(id) > 0)) |->
                retry_count(SelectSeq(sessions, LAMBDA id : retry_count(id) > 0)[j])]
    IN [error_types |->
            [type \in {errors[j].error_type : j \in 1 .. Len(errors)} |->
                Len(SelectSeq(errors, LAMBDA e : e.error_type = type))],
        top_errors |-> SubSeq(TopErrors(errors, <<>>), 1,
                              IF Len(TopErrors(errors, <<>>)) < 5
                              THEN Len(TopErrors(errors, <<>>)) ELSE 5),
        avg_retry_count |-> AvgRetry(retry_counts),
        struggling_session_ids |-> kept]

\* the sessions _analyze_events adds to struggling_sessions
Struggling(events) ==
    {id \in {events[j].session_id : j \in 1 .. Len(events)} :
        \/ \E j \in 1 .. Len(events) :
              events[j].session_id = id /\ events[j].event_type = "error"
        \/ Len(SelectSeq(events, LAMBDA e : /\ e.session_id = id
                                            /\ e.event_type = "resend_click")) >= 2}

\* _generate_demo_evidence: the template of a step that is none of
\* otp_verification, signup_form, profile_creation is that of otp_verification
generate_demo_evidence(funnel_step) ==
    [error_types |-> [type \in {Some("network_timeout"), Some("invalid_otp"),
                                Some("rate_limit_exceeded"),
                                Some("provider_error")} |->
                         IF type = Some("network_timeout") THEN 45
                         ELSE IF type = Some("invalid_otp") THEN 23
                         ELSE IF type = Some("rate_limit_exceeded") THEN 12
                         ELSE 8],
     top_errors |->
         << <<"Connection timeout after 30s waiting for Twilio response">>,
            <<"Invalid OTP code entered (3+ attempts)">>,
            <<"Rate limit exceeded: too many OTP requests from same number">>,
            <<"Twilio API error: 429 Too Many Requests">> >>,
     avg_retry_count |-> Some(23),
     struggling_session_ids |-> {"sess_demo_0", "sess_demo_1", "sess_demo_2",
                                 "sess_demo_3", "sess_demo_4"}]

EvidenceInputs ==
    {in \in [n : 0 .. MaxAnalysed, k : 0 .. MaxAnalysed,
             a : Profiles, b : Profiles] :
        /\ in.k <= in.n
        /\ in.a.errors = 0 => in.a.message = "empty"
        /\ in.b.errors = 0 => in.b.message = "empty"}

\* collect_evidence(login_form, WindowStart, WindowEnd) on the stored rows
CollectRun ==
    /\ ~dOut.done
    /\ LET rows == StoredRows(dIn.n, dIn.k, dIn.a, dIn.b)
           events == query_events(rows, WindowStart, WindowEnd, login_form)
       IN IF demo_mode \/ Len(events) = 0
          THEN dOut' = [done |-> TRUE,
                        result |-> generate_demo_evidence(login_form)]
          ELSE \E kept \in FirstTen(Struggling(events)) :
                  dOut' = [done |-> TRUE, result |-> analyze_events(events, kept)]
    /\ UNCHANGED <<clock, anomalies, heap, issues, db, tasks, evidenceLog,
                   dbWrites, ret, storeFaulty, dIn>>

(***************************************************************************)
(* Id runs: create_issue called for one anomaly and then for a second one  *)
(* on an empty IssueManager, without auto_diagnose.                        *)
(***************************************************************************)
IdInputs ==
    [first : ScanNames \X (1 .. MaxScanLen), second : ScanNames \X (1 .. MaxScanLen)]

\* the Issue objects the two calls return
CreateTwice(first, second) ==
    LET created == ListedIssue(first[1], first[2], "detected", 8700)
        issue_id == generate_issue_id([funnel_step |-> second[1],
                                       detected_at |-> second[2]])
    IN [first |-> created,
        second |-> IF IssueExists(issue_id, DictOf(<<created>>))
                   THEN created
                   ELSE ListedIssue(second[1], second[2], "detected", 8700)]

IdRun ==
    /\ ~dOut.done
    /\ dOut' = [done |-> TRUE, result |-> CreateTwice(dIn.first, dIn.second)]
    /\ UNCHANGED <<clock, anomalies, heap, issues, db, tasks, evidenceLog,
                   dbWrites, ret, storeFaulty, dIn>>

(***************************************************************************)
(* Range runs: the windows compare_with_baseline queries for a pair of     *)
(* periods (time_range_helper.py, metrics_calculator.py), given the        *)
(* timestamps of the stored events.  A window is <<start_ts, end_ts>>.     *)
(***************************************************************************)
MetricPeriod == {"last_hour", "last_24_hours", "last_7_days", "last_30_days"}

Least(stamps) == CHOOSE ts \in stamps : \A other \in stamps : ts <= other
Greatest(stamps) == CHOOSE ts \in stamps : \A other \in stamps : ts >= other

\* SELECT MIN(timestamp), MAX(timestamp) FROM events; (None, None) for an
\* empty table and when either value is falsy, that is 0
get_database_time_range(stamps) ==
    IF stamps # {} /\ Least(stamps) # 0 /\ Greatest(stamps) # 0
    THEN Some(<<Least(stamps), Greatest(stamps)>>)
    ELSE None

\* <<baseline_start, baseline_end, current_start, current_end>>, or None
get_baseline_and_current_ranges(stamps) ==
    LET range == get_database_time_range(stamps)
    IN IF range = None THEN None
       ELSE LET min_ts == range[1][1]
                max_ts == range[1][2]
                total_span == max_ts - min_ts
                midpoint == min_ts + (total_span \div 2)
            IN Some(<<min_ts, midpoint, midpoint, max_ts>>)

\* _get_time_range with use_db_range = True; the window that falls back to
\* the time of the call is given in hours from that time
get_time_range(period, stamps) ==
    LET ranges == get_baseline_and_current_ranges(stamps)
    IN IF ranges # None
       THEN IF period = "last_7_days"
            THEN <<ranges[1][1], ranges[1][2]>>
            ELSE <<ranges[1][3], ranges[1][4]>>
       ELSE <<-(IF period = "last_hour" THEN 1
                ELSE IF period = "last_24_hours" THEN 24
                ELSE IF period = "last_7_days" THEN 7 * 24
                ELSE 30 * 24),
              0>>

RangeInputs ==
    [stamps : SUBSET (0 .. MaxStamp),
     current_period : MetricPeriod, baseline_period : MetricPeriod]

\* the windows of the two calculate_funnel_metrics calls of
\* compare_with_baseline
RangeRun ==
    /\ ~dOut.done
    /\ dOut' = [done |-> TRUE,
                result |-> [current |-> get_time_range(dIn.current_period,
                                                       dIn.stamps),
                            baseline |-> get_time_range(dIn.baseline_period,
                                                        dIn.stamps)]]
    /\ UNCHANGED <<clock, anomalies, heap, issues, db, tasks, evidenceLog,
                   dbWrites, ret, storeFaulty, dIn>>

(***************************************************************************)
(* Ingestion runs: ingest_events called for one batch after another        *)
(* (event_ingestion.py).  An event is given by its deduplication hash,     *)
(* f"{session_id}:{event_type}:{timestamp}".  _cleanup_cache empties the   *)
(* cache only once it holds more than 10000 hashes, which no bounded run   *)
(* reaches.                                                                *)
(***************************************************************************)
EventHashes == {"s1:page_view:1", "s2:page_view:1"}

\* the batches of a call, and whether sqlite takes the insert of the call
IngestCalls ==
    [batch : UNION {[1 .. n -> EventHashes] : n \in 1 .. 2}, insertOk : BOOLEAN]

IngestInputs == UNION {[1 .. n -> IngestCalls] : n \in 1 .. MaxCalls}

\* the service and the events table before the first call
NoIngestion ==
    [recent_event_hashes |-> {}, events |-> <<>>, calls |-> 0,
     rejected |-> <<>>, inserted |-> 0,
     response |-> [success |-> TRUE, events_ingested |-> 0, events_rejected |-> 0]]

\* the loop over batch.events: _is_duplicate puts the hash of every event it
\* lets through into the cache
RECURSIVE FilterDuplicates(_, _, _, _)
FilterDuplicates(batch, recent_event_hashes, unique_events, rejected) ==
    IF batch = <<>>
    THEN [recent_event_hashes |-> recent_event_hashes,
          unique_events |-> unique_events, rejected |-> rejected]
    ELSE IF Head(batch) \in recent_event_hashes
         THEN FilterDuplicates(Tail(batch), recent_event_hashes, unique_events,
                               Append(rejected, Head(batch)))
         ELSE FilterDuplicates(Tail(batch),
                               recent_event_hashes \cup {Head(batch)},
                               Append(unique_events, Head(batch)), rejected)

\* batch_insert_events: the table after the call and the ids it returns;
\* when sqlite raises, nothing is committed and the except clause returns
\* one made-up id for each event
batch_insert_events(table, events, insertOk) ==
    IF insertOk
    THEN [table |-> table \o events,
          ids |-> [j \in 1 .. Len(events) |-> Len(table) + j]]
    ELSE [table |-> table, ids |-> [j \in 1 .. Len(events) |-> <<"evt", j - 1>>]]

\* ingest_events; rejected and inserted record what the call did
ingest_events(service, batch, insertOk) ==
    LET filtered == FilterDuplicates(batch, service.recent_event_hashes,
                                     <<>>, <<>>)
        insert == batch_insert_events(service.events, filtered.unique_events,
                                      insertOk)
        written == IF filtered.unique_events # <<>>
                   THEN insert
                   ELSE [table |-> service.events, ids |-> <<>>]
    IN [recent_event_hashes |-> filtered.recent_event_hashes,
        events |-> written.table,
        calls |-> service.calls + 1,
        rejected |-> filtered.rejected,
        inserted |-> Len(written.table) - Len(service.events),
        response |-> [success |-> TRUE,
                      events_ingested |-> Len(written.ids),
                      events_rejected |-> Len(filtered.rejected)]]

\* the next call of the run
IngestRun ==
    /\ ~dOut.done
    /\ LET call == dIn[dOut.result.calls + 1]
       IN dOut' = [done |-> dOut.result.calls + 1 = Len(dIn),
                   result |-> ingest_events(dOut.result, call.batch,
                                            call.insertOk)]
    /\ UNCHANGED <<clock, anomalies, heap, issues, db, tasks, evidenceLog,
                   dbWrites, ret, storeFaulty, dIn>>

(***************************************************************************)
(* Metrics runs: the FunnelMetrics of a cohort of given size.              *)
(***************************************************************************)
MetricsInputs ==
    {m \in [funnel_step : {login_form}, total : 0 .. MaxSessions,
            completed : 0 .. MaxSessions] : m.completed <= m.total}

MetricsRun ==
    /\ ~dOut.done
    /\ dOut' = [done |-> TRUE,
                result |-> calculate_funnel_metrics(dIn.funnel_step, dIn.total,
                                                    dIn.completed)]
    /\ UNCHANGED <<clock, anomalies, heap, issues, db, tasks, evidenceLog,
                   dbWrites, ret, storeFaulty, dIn>>

(***************************************************************************)
(* Specifications.                                                         *)
(***************************************************************************)
InitLifecycle ==
    /\ clock = 0
    /\ anomalies = {}
    /\ heap = <<>>
    /\ issues = <<>>
    /\ db = <<>>
    /\ tasks = [t \in Tasks |-> IdleTask]
    /\ evidenceLog = <<>>
    /\ dbWrites = 0
    /\ ret = NoReturn

IdleDetector ==
    /\ dIn = [funnel_step |-> login_form, queryOk |-> TRUE,
              current |-> <<0, 0>>, baseline |-> <<0, 0>>]
    /\ dOut = [done |-> TRUE, result |-> None]

\* the lifecycle with a sqlite file whose writes may fail
Init == InitLifecycle /\ IdleDetector /\ storeFaulty = TRUE

\* the lifecycle with a sqlite file whose writes always succeed
InitReliable == InitLifecycle /\ IdleDetector /\ storeFaulty = FALSE

Next ==
    \/ \E step \in ScanSteps, cohorts \in ScanCohorts : DetectAnomaly(step, cohorts)
    \/ \E t \in FreeTasks, a \in anomalies, auto \in BOOLEAN : CreateIssue(t, a, auto)
    \/ \E t \in FreeTasks, id \in CallIds : DiagnoseIssue(t, id)
    \/ \E t \in Tasks, outcome \in ProviderOutcomes : ProviderRespond(t, outcome)
    \/ \E t \in FreeTasks, id \in CallIds, key \in JiraKeys : MarkJiraCreated(t, id, key)
    \/ \E t \in FreeTasks, id \in CallIds, refs \in FixRefs :
           MarkFixed(t, id, refs[1], refs[2])
    \/ \E t \in FreeTasks, id \in CallIds, draw \in UniformDraws :
           MeasureImpact(t, id, draw)

Spec == Init /\ [][Next]_vars

SpecReliable == InitReliable /\ [][Next]_vars

\* the lifecycle with request completion and resumption as separate steps
NextAwait ==
    \/ \E step \in ScanSteps, cohorts \in ScanCohorts : DetectAnomaly(step, cohorts)
    \/ \E t \in FreeTasks, a \in anomalies, auto \in BOOLEAN : CreateIssue(t, a, auto)
    \/ \E t \in FreeTasks, id \in CallIds : DiagnoseIssue(t, id)
    \/ \E t \in Tasks : ProviderAnswers(t)
    \/ \E t \in Tasks : Resume(t)
    \/ \E t \in FreeTasks, id \in CallIds, key \in JiraKeys : MarkJiraCreated(t, id, key)
    \/ \E t \in FreeTasks, id \in CallIds, refs \in FixRefs :
           MarkFixed(t, id, refs[1], refs[2])
    \/ \E t \in FreeTasks, id \in CallIds, draw \in UniformDraws :
           MeasureImpact(t, id, draw)

SpecAwait ==
    /\ InitReliable
    /\ [][NextAwait]_vars
    /\ \A t \in Tasks : WF_vars(Resume(t))

InitDetect ==
    /\ InitLifecycle
    /\ storeFaulty = FALSE
    /\ dIn \in DetectorInputs
    /\ dOut = NoRun

NextDetect == DetectRun

SpecDetect == InitDetect /\ [][NextDetect]_vars

InitSeverity ==
    /\ InitLifecycle
    /\ storeFaulty = FALSE
    /\ dIn \in [drop_percentage : DropValues]
    /\ dOut = NoRun

NextSeverity == SeverityRun

SpecSeverity == InitSeverity /\ [][NextSeverity]_vars

InitList ==
    /\ clock = 0
    /\ anomalies = {}
    /\ heap \in ListedHeaps
    /\ issues = DictOf(heap)
    /\ db = <<>>
    /\ tasks = [t \in Tasks |-> IdleTask]
    /\ evidenceLog = <<>>
    /\ dbWrites = 0
    /\ ret = NoReturn
    /\ storeFaulty = FALSE
    /\ dIn \in [status : StatusFilters, severity : SeverityFilters]
    /\ dOut = NoRun

NextList == ListRun

SpecList == InitList /\ [][NextList]_vars

InitCohort ==
    /\ InitLifecycle
    /\ storeFaulty = FALSE
    /\ \E n \in 0 .. MaxEvents :
          \E table \in 0 .. TableCount(n) - 1 :
              /\ Ascending(table, n)
              /\ dIn = CohortInput(table, n)
    /\ dOut = NoRun

NextCohort == CohortRun

SpecCohort == InitCohort /\ [][NextCohort]_vars

InitEvidence ==
    /\ InitLifecycle
    /\ storeFaulty = FALSE
    /\ dIn \in EvidenceInputs
    /\ dOut = NoRun

NextEvidence == CollectRun

SpecEvidence == InitEvidence /\ [][NextEvidence]_vars

InitIds ==
    /\ InitLifecycle
    /\ storeFaulty = FALSE
    /\ dIn \in IdInputs
    /\ dOut = NoRun

NextIds == IdRun

SpecIds == InitIds /\ [][NextIds]_vars

InitRanges ==
    /\ InitLifecycle
    /\ storeFaulty = FALSE
    /\ dIn \in RangeInputs
    /\ dOut = NoRun

NextRanges == RangeRun

SpecRanges == InitRanges /\ [][NextRanges]_vars

InitIngest ==
    /\ InitLifecycle
    /\ storeFaulty = FALSE
    /\ dIn \in IngestInputs
    /\ dOut = [done |-> FALSE, result |-> NoIngestion]

NextIngest == IngestRun

SpecIngest == InitIngest /\ [][NextIngest]_vars

InitScan ==
    /\ InitLifecycle
    /\ storeFaulty = FALSE
    /\ dIn \in ScanInputs
    /\ dOut = NoRun

NextScan == ScanRun

SpecScan == InitScan /\ [][NextScan]_vars

InitMetrics ==
    /\ InitLifecycle
    /\ storeFaulty = FALSE
    /\ dIn \in MetricsInputs
    /\ dOut = NoRun

NextMetrics == MetricsRun

SpecMetrics == InitMetrics /\ [][NextMetrics]_vars

(***************************************************************************)
(* Properties.                                                             *)
(***************************************************************************)
\* position of a status in Detected -> Diagnosed -> Fixed -> Verified
Rank(status) ==
    CASE status = "detected" -> 0
      [] status = "diagnosed" -> 1
      [] status = "fixed" -> 2
      [] status = "measuring" -> 3
      [] status = "verified" -> 4
      [] status = "closed" -> 5

StatusOf(issue_id) == heap[issues[issue_id]].status

\* C1: no call ever changes the status of an issue to one that is earlier in
\* Detected -> Diagnosed -> Fixed -> Verified than the status it had before.
C1_StatusMonotonic ==
    [][\A id \in DOMAIN issues :
          Rank(heap'[issues'[id]].status) >= Rank(heap[issues[id]].status)]_vars

\* the issues already stored for the (funnel_step, detected_at) of an anomaly
StoredFor(anomaly) ==
    {id \in DOMAIN issues :
        /\ heap[issues[id]].anomaly.funnel_step = anomaly.funnel_step
        /\ heap[issues[id]].anomaly.detected_at = anomaly.detected_at}

\* C2: a create_issue call whose anomaly has the (funnel_step, detected_at)
\* of an issue that is already stored returns that issue's id and the
\* stored Issue object, leaves every field of every issue as it was,
\* collects no Evidence and writes nothing to the store.
C2_CreateIdempotent ==
    [][(ret'.op = "create_issue" /\ ret'.arg # None /\ StoredFor(ret'.arg[1]) # {})
          => /\ ret'.kind = "ok"
             /\ ret'.id[1] \in StoredFor(ret'.arg[1])
             /\ ret'.issue = Some(issues[ret'.id[1]])
             /\ heap' = heap
             /\ issues' = issues
             /\ evidenceLog' = evidenceLog
             /\ db' = db
             /\ dbWrites' = dbWrites]_vars

\* a second create_issue call has returned an issue that was fixed meanwhile
C2_Witness ==
    /\ ret.op = "create_issue"
    /\ ret.existing
    /\ ~ret.overlap
    /\ StatusOf(ret.id[1]) = "fixed"
    /\ heap[ret.issue[1]].fix_pr_url # None

\* the id that create_issue derives for the step and window of an Evidence
EvidenceId(evidence) ==
    <<evidence.end_time, SelectSeq(evidence.funnel_step, NotUnderscore)>>

\* C3: when create_issue calls for one (funnel_step, detected_at) overlap,
\* Evidence is collected exactly once for the id, exactly one Issue object
\* is stored for it, and each of the overlapping calls returns that Issue.
C3_CreateSerialized ==
    /\ \A id \in DOMAIN issues :
          /\ Cardinality({i \in 1 .. Len(evidenceLog) :
                             EvidenceId(evidenceLog[i]) = id}) = 1
          /\ Cardinality({o \in 1 .. Len(heap) : heap[o].id = id}) = 1
    /\ (ret.op = "create_issue" /\ ret.overlap)
          => (ret.kind = "ok" /\ ret.issue = Some(issues[ret.id[1]]))

\* C4: when mark_fixed or measure_impact completes while a diagnose_issue of
\* the same issue waits for the provider, the status after the diagnose_issue
\* has returned is still Fixed, resp. Verified.
C4_UpdateNotDropped ==
    (/\ ret.op = "diagnose_issue"
     /\ ret.kind = "ok"
     /\ ret.before \in {"fixed", "verified"}
     /\ ret.seen \notin {"fixed", "verified"})
        => StatusOf(ret.id[1]) = ret.before

\* C5: with a store whose writes succeed, after every successful return of
\* create_issue, diagnose_issue, mark_fixed or measure_impact the store holds
\* the row of the cached Issue, and no cached issue ever has a status that
\* the store does not hold.
C5_WriteThrough ==
    /\ (/\ ret.op \in {"create_issue", "diagnose_issue", "mark_fixed",
                       "measure_impact"}
        /\ ret.kind = "ok")
          => /\ ret.id[1] \in DOMAIN db
             /\ db[ret.id[1]] = IssueRow(heap[issues[ret.id[1]]])
    /\ \A id \in DOMAIN issues :
          id \in DOMAIN db /\ db[id].status = StatusOf(id)

\* C6: a call during which a write to the store failed does not return
\* successfully.
C6_FailedWritePropagates ==
    ret.saved = "failed" => ret.kind # "ok"

\* C7: whatever the provider does other than answering properly,
\* diagnose_issue on a known issue returns the Issue with status Diagnosed,
\* diagnosed_at stamped, confidence 0 and the generic recommended actions.
C7_ProviderTolerated ==
    (ret.op = "diagnose_issue" /\ ret.provider \notin {"none", "ok"})
        => /\ ret.kind = "ok"
           /\ StatusOf(ret.id[1]) = "diagnosed"
           /\ heap[ret.issue[1]].diagnosed_at # None
           /\ heap[ret.issue[1]].diagnosis # None
           /\ heap[ret.issue[1]].diagnosis[1].confidence = 0
           /\ heap[ret.issue[1]].diagnosis[1].recommended_actions = "generic"

\* C8: diagnose_issue, mark_fixed and measure_impact called with an id that
\* is not stored raise NotFound and change no Issue, no dict entry and no
\* row of the store.
C8_UnknownIdNotFound ==
    [][(/\ ret'.op \in {"diagnose_issue", "mark_fixed", "measure_impact"}
        /\ ret'.id[1] \notin DOMAIN issues)
          => /\ ret'.kind = "NotFound"
             /\ heap' = heap
             /\ issues' = issues
             /\ db' = db
             /\ dbWrites' = dbWrites]_vars

\* measure_impact has raised NotFound while an issue is stored
C8_Witness ==
    /\ ret.op = "measure_impact"
    /\ ret.kind = "NotFound"
    /\ ret.id[1] \notin DOMAIN issues
    /\ DOMAIN issues # {}

\* C9: measure_impact on a stored issue, whatever its status and its anomaly
\* rates, returns it with status Verified, measured_at stamped and
\* uplift_percentage = (post_fix_rate - current) / current * 100.
C9_MeasureAlwaysVerifies ==
    (ret.op = "measure_impact" /\ ret.id[1] \in DOMAIN issues)
        => /\ ret.kind = "ok"
           /\ StatusOf(ret.id[1]) = "verified"
           /\ heap[ret.issue[1]].measured_at # None
           /\ heap[ret.issue[1]].post_fix_conversion_rate # None
           /\ heap[ret.issue[1]].uplift_percentage =
                 Some(Uplift(heap[ret.issue[1]].post_fix_conversion_rate[1],
                             heap[ret.issue[1]].anomaly.current_conversion_rate))

\* the three gates, computed from the cohorts of a detector run
SampleGate == dIn.current[1] >= min_sample_size

RateOf(cohort) == ConversionRate(cohort[2], cohort[1])

DropGate == RateOf(dIn.current) - RateOf(dIn.baseline) < -min_drop_percent

SigmaGate ==
    SigmaAtLeast(calculate_sigma(RateOf(dIn.current), RateOf(dIn.baseline),
                                 dIn.current[1], dIn.baseline[1]),
                 sigma_threshold)

\* C10: detect_anomaly returns an Anomaly exactly when the sample-size gate,
\* the drop-magnitude gate and the significance gate hold together, and every
\* Anomaly it returns has is_significant = true and
\* current_sessions >= min_sample_size.
C10_ThreeGates ==
    dOut.done
        => /\ (dOut.result # None) <=>
                  (dIn.queryOk /\ SampleGate /\ DropGate /\ SigmaGate)
           /\ dOut.result # None
                 => /\ dOut.result[1].is_significant
                    /\ dOut.result[1].current_sessions >= min_sample_size

\* 50 current sessions at 52.0 against 87.0: only the sample gate fails
C10_Witness ==
    /\ dOut.done
    /\ dIn.queryOk
    /\ dIn.current = <<50, 26>>
    /\ dIn.baseline = <<100, 87>>
    /\ ~SampleGate /\ DropGate /\ SigmaGate
    /\ dOut.result = None

C12_CreationFieldsFrozen ==
    [][\A id \in DOMAIN issues :
          /\ id \in DOMAIN issues'
          /\ heap'[issues'[id]].id = heap[issues[id]].id
          /\ heap'[issues'[id]].severity = heap[issues[id]].severity
          /\ heap'[issues'[id]].anomaly = heap[issues[id]].anomaly
          /\ heap'[issues'[id]].created_at = heap[issues[id]].created_at
          /\ heap'[issues'[id]].severity =
                 calculate_severity(heap'[issues'[id]].anomaly.drop_percentage)]_vars

\* an issue of medium severity has been diagnosed, ticketed and fixed
C12_Witness ==
    \E id \in DOMAIN issues :
        /\ heap[issues[id]].severity = "medium"
        /\ heap[issues[id]].diagnosis # None
        /\ heap[issues[id]].jira_ticket_key # None
        /\ heap[issues[id]].status = "fixed"

\* C13: the FunnelMetrics of a cohort with sessions has conversion_rate +
\* drop_off_rate within 0.01 of 100, and the FunnelMetrics of an empty cohort
\* is total_sessions 0, completed_sessions 0, conversion_rate 0,
\* drop_off_rate 100.
C13_RatesSumTo100 ==
    dOut.done
        => /\ dIn.total > 0
                 => /\ Abs(dOut.result.conversion_rate
                           + dOut.result.drop_off_rate - 10000) <= 1
                    /\ dOut.result.total_sessions = dIn.total
           /\ dIn.total = 0
                 => /\ dOut.result.total_sessions = 0
                    /\ dOut.result.completed_sessions = 0
                    /\ dOut.result.conversion_rate = 0
                    /\ dOut.result.drop_off_rate = 10000

\* 1 of 32 sessions completed: 3.125 and 96.875 are both rounding ties
C13_Witness ==
    /\ dOut.done
    /\ dIn.total = 32 /\ dIn.completed = 1
    /\ dOut.result.conversion_rate = 312
    /\ dOut.result.drop_off_rate = 9688

C15_MarkFixedStoresAndPersists ==
    (ret.op = "mark_fixed" /\ ret.id[1] \in DOMAIN issues)
        => /\ ret.kind = "ok"
           /\ StatusOf(ret.id[1]) = "fixed"
           /\ heap[ret.issue[1]].fixed_at # None
           /\ ret.arg[1][1] # None
                 => heap[ret.issue[1]].fix_commit_sha = ret.arg[1][1]
           /\ ret.arg[1][2] # None
                 => heap[ret.issue[1]].fix_pr_url = ret.arg[1][2]
           /\ ret.id[1] \in DOMAIN db
           /\ db[ret.id[1]].status = "fixed"
           /\ db[ret.id[1]].github_pr = heap[ret.issue[1]].fix_pr_url

\* an anomaly without the time of its detection
Undated(anomaly) == [anomaly EXCEPT !.detected_at = 0]

\* the positions of a list whose step detect_anomaly accepts
AcceptedAt(funnel_steps) ==
    {i \in 1 .. Len(funnel_steps) :
        DetectTable[funnel_steps[i], dIn.store[funnel_steps[i]]] # None}

\* the place in the result of the anomaly of an accepted position
PlaceOf(funnel_steps, i) ==
    Cardinality({j \in AcceptedAt(funnel_steps) : j <= i})

\* C16: a scan returns, in list order, exactly the anomaly detect_anomaly
\* gives for each listed step it accepts, whatever the other steps of the
\* list are; scanning the reordered list returns the same anomalies
\* reordered; a step is returned at most as often as it is listed.
C16_ScanIndependent ==
    dOut.done
        => LET steps == dIn.funnel_steps
               again == Reordered(steps, dIn.order)
               r == dOut.result.anomalies
               q == dOut.result.reordered
           IN /\ Len(r) = Cardinality(AcceptedAt(steps))
              /\ \A i \in AcceptedAt(steps) :
                    Undated(r[PlaceOf(steps, i)]) =
                        DetectTable[steps[i], dIn.store[steps[i]]][1]
              /\ Len(q) = Len(r)
              /\ \A k \in AcceptedAt(again) :
                    Undated(q[PlaceOf(again, k)]) =
                        Undated(r[PlaceOf(steps, dIn.order[k])])
              /\ \A name \in ScanNames :
                    Cardinality({k \in 1 .. Len(r) : r[k].funnel_step = name})
                        <= Cardinality({i \in 1 .. Len(steps) : steps[i] = name})

\* three steps, the rejected one listed second, scanned in reverse as well
C16_Witness ==
    /\ dOut.done
    /\ dIn.funnel_steps = <<login_form, signup, loginform>>
    /\ dIn.order = <<3, 2, 1>>
    /\ Len(dOut.result.anomalies) = 2
    /\ dOut.result.anomalies[1].funnel_step = login_form
    /\ dOut.result.reordered[1].funnel_step = loginform

\* the stored issues that match the filters of a list_issues run
Matching ==
    {o \in {issues[id] : id \in DOMAIN issues} :
        /\ dIn.status # None => heap[o].status = dIn.status[1]
        /\ dIn.severity # None => heap[o].severity = dIn.severity[1]}

\* C17: list_issues returns each stored issue that matches every supplied
\* filter exactly once and nothing else (every issue without filters, the
\* empty list when nothing matches), newest created_at first.
C17_ListFilteredNewestFirst ==
    dOut.done
        => /\ {dOut.result[k] : k \in 1 .. Len(dOut.result)} = Matching
           /\ Len(dOut.result) = Cardinality(Matching)
           /\ \A k \in 1 .. Len(dOut.result) - 1 :
                 heap[dOut.result[k]].created_at
                     >= heap[dOut.result[k + 1]].created_at

\* three issues, the newest created second; the filter drops the third
C17_Witness ==
    /\ dOut.done
    /\ Len(heap) = 3
    /\ heap[1].created_at = 1 /\ heap[2].created_at = 2
    /\ heap[1].status = "fixed" /\ heap[2].status = "fixed"
    /\ heap[3].status = "detected"
    /\ dIn.status = Some("fixed") /\ dIn.severity = None
    /\ dOut.result = <<2, 1>>

\* the difference of the two conversion rates of a detector run
Delta == RateOf(dIn.current) - RateOf(dIn.baseline)

\* C18: past the sample-size gate, and with the significance gate passed,
\* detect_anomaly rejects exactly when delta > -min_drop_percent, so a delta
\* equal to -min_drop_percent is accepted; the Anomaly it returns has
\* drop_percentage = |delta|.
C18_DropGateBoundary ==
    (dOut.done /\ dIn.queryOk /\ SampleGate /\ SigmaGate)
        => /\ (dOut.result = None) <=> (Delta > -min_drop_percent)
           /\ dOut.result # None
                 => dOut.result[1].drop_percentage = Abs(Delta)

\* the z-score of a detector run, as detect_anomaly asks for it
SigmaOf ==
    calculate_sigma(RateOf(dIn.current), RateOf(dIn.baseline),
                    dIn.current[1], dIn.baseline[1])

\* completed sessions of both cohorts of a detector run, and all sessions
PooledCompleted == dIn.current[2] + dIn.baseline[2]
PooledTotal == dIn.current[1] + dIn.baseline[1]

EqualRates ==
    /\ dIn.current[1] > 0 /\ dIn.baseline[1] > 0
    /\ RateOf(dIn.current) = RateOf(dIn.baseline)

ZeroStandardError ==
    /\ dIn.current[1] > 0 /\ dIn.baseline[1] > 0
    /\ PooledCompleted \in {0, PooledTotal}

EmptySample == dIn.current[1] = 0 \/ dIn.baseline[1] = 0

\* C19: with equal rates over positive sample sizes, with a pooled
\* proportion of 0 or 1, and with a sample size of 0, the z-score is the
\* defined value 0 and detect_anomaly returns no anomaly.
C19_DegenerateSigmaIsZero ==
    (dOut.done /\ dIn.queryOk /\ (EqualRates \/ ZeroStandardError \/ EmptySample))
        => /\ SigmaOf.num = BigOf(0)
           /\ SigmaOf.den # BigOf(0)
           /\ dOut.result = None

\* 52 of 100 current sessions against an empty baseline
C19_Witness ==
    /\ dOut.done
    /\ dIn.queryOk
    /\ dIn.current = <<100, 52>>
    /\ dIn.baseline = <<0, 0>>
    /\ EmptySample
    /\ SigmaOf = ZeroSigma
    /\ dOut.result = None

\* the sessions of the table with an event of the step inside the window
InWindow ==
    {id \in {SessionIds[k] : k \in 1 .. Len(SessionIds)} :
        \E k \in 1 .. Len(dIn.rows) :
            /\ dIn.rows[k].session_id = id
            /\ dIn.rows[k].funnel_step = dIn.funnel_step
            /\ dIn.start_ts <= dIn.rows[k].timestamp
            /\ dIn.rows[k].timestamp <= dIn.end_ts}

\* an event that matches the terminal-success marker
Marker(e) ==
    \/ e.event_type \in {"login_complete", "custom"}
    \/ e.funnel_step = login_complete

\* C20: total_sessions is the number of distinct session ids with an event
\* of the step inside the window, and completed_sessions the number of those
\* with a marker event anywhere in the session's history, inside the window
\* or not; so 0 <= completed_sessions <= total_sessions.
C20_CohortAndCompletion ==
    dOut.done
        => /\ dOut.result.total_sessions = Cardinality(InWindow)
           /\ dOut.result.completed_sessions =
                  Cardinality({id \in InWindow :
                      \E k \in 1 .. Len(dIn.rows) :
                          /\ dIn.rows[k].session_id = id
                          /\ Marker(dIn.rows[k])})
           /\ 0 <= dOut.result.completed_sessions
           /\ dOut.result.completed_sessions <= dOut.result.total_sessions

\* two sessions in the window, one of them completing after its end
C20_Witness ==
    /\ dOut.done
    /\ Len(dIn.rows) = 3
    /\ InWindow = {"s1", "s2"}
    /\ \E k \in 1 .. 3 : /\ dIn.rows[k].session_id = "s1"
                          /\ Marker(dIn.rows[k])
                          /\ dIn.rows[k].timestamp > dIn.end_ts
    /\ \A k \in 1 .. 3 : Marker(dIn.rows[k]) => dIn.rows[k].timestamp > dIn.end_ts
    /\ dOut.result.total_sessions = 2
    /\ dOut.result.completed_sessions = 1

\* the Issue object obj is as create_issue makes it: Evidence over the hour
\* up to detected_at, the severity of the drop, and a row in the issues table
CreatedAndPersisted(obj) ==
    LET issue == heap[obj]
    IN /\ issue.evidence.end_time = issue.anomaly.detected_at
       /\ issue.evidence.start_time = issue.anomaly.detected_at - HourMs
       /\ issue.evidence.funnel_step = issue.anomaly.funnel_step
       /\ issue.severity = calculate_severity(issue.anomaly.drop_percentage)
       /\ issue.id \in DOMAIN db

\* C21: create_issue for an id not yet stored collects Evidence over
\* [detected_at - 1 hour, detected_at], stores the Issue with status Detected
\* and the computed severity and persists it before the diagnosis starts;
\* without auto_diagnose it returns the Issue Detected and undiagnosed, with
\* auto_diagnose it returns the Issue Diagnosed.
C21_CreatePersistsThenDiagnoses ==
    /\ \A t \in Tasks :
          (tasks[t].pc # "idle" /\ tasks[t].op = "create_issue")
              => CreatedAndPersisted(tasks[t].issue[1])
    /\ (ret.op = "create_issue" /\ ret.kind = "ok" /\ ~ret.existing)
          => /\ CreatedAndPersisted(ret.issue[1])
             /\ ret.provider = "none"
                   => /\ heap[ret.issue[1]].status = "detected"
                      /\ heap[ret.issue[1]].diagnosis = None
             /\ ret.provider # "none"
                   => heap[ret.issue[1]].status = "diagnosed"

\* the profile of session i of an evidence run, the sessions whose events
\* lie inside the window, and those of them with a resend click
ProfileOf(i) == IF i <= dIn.k THEN dIn.a ELSE dIn.b

Inside == {i \in 1 .. dIn.n : ProfileOf(i).inside}

Retried == {i \in Inside : ProfileOf(i).retries > 0}

RetrySum ==
    Cardinality({i \in Retried : i <= dIn.k}) * dIn.a.retries
        + Cardinality({i \in Retried : i > dIn.k}) * dIn.b.retries

\* what C22 says of the struggling sessions and of the messages
StrugglingAndErrorsBounded ==
    /\ \A id \in dOut.result.struggling_session_ids :
          ProfileOf(id).errors >= 1 \/ ProfileOf(id).retries >= 2
    /\ Cardinality(dOut.result.struggling_session_ids) <= 10
    /\ Len(dOut.result.top_errors) <= 5
    /\ \A i, j \in 1 .. Len(dOut.result.top_errors) :
          /\ dOut.result.top_errors[i] # <<>>
          /\ i # j => dOut.result.top_errors[i] # dOut.result.top_errors[j]

\* C22 as stated: in Evidence computed from events, a struggling session has
\* an error event or at least 2 retries, at most 10 ids and at most 5
\* distinct non-empty messages are returned, and avg_retry_count is the mean
\* retry count of the sessions that retried, None when none did.
C22_EvidenceAsStated ==
    (dOut.done /\ Inside # {})
        => /\ StrugglingAndErrorsBounded
           /\ IF Retried = {} THEN dOut.result.avg_retry_count = None
              ELSE /\ dOut.result.avg_retry_count # None
                   /\ dOut.result.avg_retry_count[1] * Cardinality(Retried)
                          = 10 * RetrySum

\* C22 amended: the same, with avg_retry_count the mean rounded to one
\* decimal (within 0.05 of the mean).
C22_EvidenceRoundedMean ==
    (dOut.done /\ Inside # {})
        => /\ StrugglingAndErrorsBounded
           /\ IF Retried = {} THEN dOut.result.avg_retry_count = None
              ELSE /\ dOut.result.avg_retry_count # None
                   /\ 2 * Abs(dOut.result.avg_retry_count[1] * Cardinality(Retried)
                                 - 10 * RetrySum) <= Cardinality(Retried)

\* eleven sessions with an error each, all with messages of their own, four
\* with one retry and seven with two: the mean 18 / 11 comes out as 1.6
C22_Witness ==
    /\ dOut.done
    /\ dIn.n = 11 /\ dIn.k = 4
    /\ Cardinality(Inside) = 11
    /\ dIn.a.retries = 1 /\ dIn.b.retries = 2
    /\ dIn.a.message = "own" /\ dIn.b.message = "own"
    /\ Cardinality(dOut.result.struggling_session_ids) = 10
    /\ Len(dOut.result.top_errors) = 5
    /\ dOut.result.avg_retry_count = Some(16)

\* C23: two anomalies that differ in funnel_step or in detected_at get
\* different issue ids, and create_issue for the second returns an Issue of
\* the second anomaly's funnel step, never the Issue created for the first.
C23_IdsInjective ==
    (dOut.done /\ dIn.first # dIn.second)
        => /\ dOut.result.first.id # dOut.result.second.id
           /\ dOut.result.second.anomaly.funnel_step = dIn.second[1]

\* C24: a mark_fixed call leaves fix_pr_url as it was when no pr_url is
\* supplied and fix_commit_sha as it was when no commit_sha is supplied, and
\* never changes jira_ticket_key.
C24_MarkFixedKeepsUnsuppliedRefs ==
    [][(ret'.op = "mark_fixed" /\ ret'.kind = "ok")
          => LET obj == ret'.issue[1]
                 commit_sha == ret'.arg[1][1]
                 pr_url == ret'.arg[1][2]
             IN /\ pr_url = None => heap'[obj].fix_pr_url = heap[obj].fix_pr_url
                /\ commit_sha = None
                      => heap'[obj].fix_commit_sha = heap[obj].fix_commit_sha
                /\ heap'[obj].jira_ticket_key = heap[obj].jira_ticket_key]_vars

\* a range run in data-range-split mode, and the cohort query's test
SplitMode == dOut.done /\ get_database_time_range(dIn.stamps) # None

Within(ts, window) == window[1] <= ts /\ ts <= window[2]

\* C25: the window queried for last_7_days (the baseline half) and the one
\* queried for any other period (the current half) do not overlap: every
\* stored timestamp is inside exactly one of them.
C25_SplitWindowsDisjoint ==
    (SplitMode /\ dIn.baseline_period = "last_7_days"
               /\ dIn.current_period # "last_7_days")
        => \A ts \in dIn.stamps :
              Within(ts, dOut.result.baseline) # Within(ts, dOut.result.current)

\* C26: in data-range-split mode the baseline metrics are computed over
\* the first half of the span and the current metrics over the second
\* half, whatever the two periods, and never over the same window.
C26_BaselineFirstHalf ==
    SplitMode
        => LET ranges == get_baseline_and_current_ranges(dIn.stamps)[1]
           IN /\ dOut.result.baseline = <<ranges[1], ranges[2]>>
              /\ dOut.result.current = <<ranges[3], ranges[4]>>
              /\ dOut.result.baseline # dOut.result.current

\* the sessions with an error event stored inside the window
Erring == {i \in Inside : ProfileOf(i).errors >= 1}

\* C27: every error type, error message and struggling session id of the
\* Evidence returned by collect_evidence is that of a stored event of the
\* step inside the window, and the Evidence has no error types and no
\* struggling session ids when no stored event matches.
C27_EvidenceFromStoredEvents ==
    dOut.done
        => /\ dOut.result.struggling_session_ids \subseteq Inside
           /\ DOMAIN dOut.result.error_types
                  \subseteq {Some(ProfileOf(i).message) : i \in Erring}
           /\ \A j \in 1 .. Len(dOut.result.top_errors) :
                 \E i \in Erring :
                     dOut.result.top_errors[j] = MessageOf(i, ProfileOf(i))
           /\ Inside = {}
                 => /\ DOMAIN dOut.result.error_types = {}
                    /\ dOut.result.struggling_session_ids = {}

\* C28: when a mutating operation has returned, reloading the cache from
\* the issues table gives the issue with the id, status, severity and
\* diagnosis confidence it has in the cache.
C28_RestartRoundTrip ==
    (/\ ret.op \in {"create_issue", "diagnose_issue", "mark_jira_created",
                     "mark_fixed", "measure_impact"}
     /\ ret.kind = "ok")
        => LET id == ret.id[1]
               cached == heap[issues[id]]
               reloaded == load_issues_from_db(db)
           IN /\ id \in DOMAIN reloaded
              /\ reloaded[id].id = cached.id
              /\ reloaded[id].status = cached.status
              /\ reloaded[id].severity = cached.severity
              /\ (reloaded[id].diagnosis = None) <=> (cached.diagnosis = None)
              /\ cached.diagnosis # None
                    => reloaded[id].diagnosis[1].confidence
                          = cached.diagnosis[1].confidence

\* C29: every Anomaly detect_anomaly emits has a drop_percentage of at
\* least min_drop_percent, so the severity create_issue computes for it is
\* Medium, High or Critical, never Low.
C29_DetectedNeverLow ==
    (dOut.done /\ dOut.result # None)
        => /\ dOut.result[1].drop_percentage >= min_drop_percent
           /\ calculate_severity(dOut.result[1].drop_percentage)
                  \in {"medium", "high", "critical"}

\* 74 of 100 against 87 of 100: a drop of 13.0, Medium
C29_Witness ==
    /\ dOut.done
    /\ dIn.current = <<100, 74>>
    /\ dIn.baseline = <<100, 87>>
    /\ dOut.result # None
    /\ dOut.result[1].drop_percentage = 1300
    /\ calculate_severity(dOut.result[1].drop_percentage) = "medium"

\* C30: after every ingest_events call, each event the call rejected as a
\* duplicate is in the events table, and events_ingested is the number of
\* events the call stored.
C30_DeduplicationLosesNothing ==
    dOut.result.calls > 0
        => /\ \A j \in 1 .. Len(dOut.result.rejected) :
                 \E k \in 1 .. Len(dOut.result.events) :
                     dOut.result.events[k] = dOut.result.rejected[j]
           /\ dOut.result.response.events_ingested = dOut.result.inserted

====
